---- MODULE Spec2Model ----
(***************************************************************************)
(* A model of the podcast sync engine of src/src/podcast.rs: the pattern   *)
(* evaluator, the selection policy, the completion ledger, the resumable   *)
(* download and the per-subscription sync loop, plus load_all.             *)
(*                                                                         *)
(* Text is modelled as a sequence of tokens.  A token is a one-character   *)
(* string (" ", "_", "a", a newline, a quote, a brace ...) or an atomic    *)
(* run of characters that holds no whitespace and no brace (a token key    *)
(* such as "guid", the decimal rendering of a number).                     *)
(***************************************************************************)
EXTENDS Integers, Sequences, FiniteSets, TLC

(* ------------------------------ bounds -------------------------------- *)
\* the longest remote object, in bytes
MaxLen == 2
\* the most bytes one streamed chunk carries
MaxChunk == 2
\* the number of sync runs of one subscription a behaviour holds
MaxRuns == 2
\* the last day (counted from day 0) the clock reaches in the sync model
MaxDay == 1
\* the largest feed of the selection-policy probes
MaxCount == 21
\* the largest max_episodes of the selection-policy probes
MaxMaxEpisodes == 6
\* the last day after `start` of the backlog probes
MaxBacklogDay == 22
\* the largest backlog interval, in days
MaxInterval == 7
\* the largest episode index of the backlog probes
MaxBacklogIndex == 3
\* the number of configured subscriptions of the load_all model
MaxSubs == 3
\* the most items of a feed of the episodes() model
MaxItems == 3
\* the last publish day of an item of the episodes() model
MaxPublished == 2
\* the most items of a feed of the pending_episodes() model
MaxQueueItems == 5
\* the largest max_episodes of the pending_episodes() model
MaxQueueEpisodes == 6
\* the last day of the clock of the pending_episodes() model
MaxQueueDay == 3
\* the most writes, whole or interrupted, a ledger file of the load() model holds
MaxLedgerWrites == 2

(* ------------------------- program constants -------------------------- *)
SECS_PER_DAY == 86400
\* the width of usize in the model: the wrapped difference only has to
\* exceed every episode index, as 2^64 - d does in the program
UsizeModulus == 2 ^ 30

null == <<"<value", " ", "not", " ", "found>">>
PARTIAL == "partial"
APPNAME == <<"c">>
HomeDir == <<"h">>

(* ------------------------------- text --------------------------------- *)
IsWhitespace(c) == c \in {" ", "\n", "\t"}

\* str::replace(from, to) for one-character patterns
replace(s, from, to) == [i \in 1..Len(s) |-> IF s[i] = from THEN to ELSE s[i]]

\* i64::to_string: the decimal digits, one atomic run
to_string(n) == <<ToString(n)>>

RECURSIVE TrimStart(_)
TrimStart(s) ==
    IF s # <<>> /\ IsWhitespace(Head(s)) THEN TrimStart(Tail(s)) ELSE s

RECURSIVE TrimEnd(_)
TrimEnd(s) ==
    IF s # <<>> /\ IsWhitespace(s[Len(s)])
    THEN TrimEnd(SubSeq(s, 1, Len(s) - 1)) ELSE s

\* str::trim
trim(s) == TrimEnd(TrimStart(s))

\* str::lines: split at newlines; a final newline ends the last line.  The
\* line in work starts at position start.
RECURSIVE LinesFrom(_, _, _)
LinesFrom(s, i, start) ==
    IF i > Len(s)
    THEN (IF start > Len(s) THEN <<>> ELSE <<SubSeq(s, start, Len(s))>>)
    ELSE IF s[i] = "\n"
         THEN <<SubSeq(s, start, i - 1)>> \o LinesFrom(s, i + 1, i + 1)
    ELSE LinesFrom(s, i + 1, start)

lines(s) == LinesFrom(s, 1, 1)

\* str::split_whitespace: the maximal runs of non-whitespace tokens.  The
\* run in work starts at position start, 0 when no run is open.
RECURSIVE FieldsFrom(_, _, _)
FieldsFrom(s, i, start) ==
    IF i > Len(s)
    THEN (IF start = 0 THEN <<>> ELSE <<SubSeq(s, start, Len(s))>>)
    ELSE IF IsWhitespace(s[i])
         THEN (IF start = 0 THEN <<>> ELSE <<SubSeq(s, start, i - 1)>>)
                 \o FieldsFrom(s, i + 1, 0)
    ELSE FieldsFrom(s, i + 1, IF start = 0 THEN i ELSE start)

split_whitespace(s) == FieldsFrom(s, 1, 0)

\* the decimal runs a timestamp field can hold, whole or cut short
NumberTokens == {ToString(d * SECS_PER_DAY) : d \in 0..(MaxDay + 2)} \cup {"864"}

\* str::parse::<i64> succeeds on a field that is one decimal run
ParsesAsI64(field) == Len(field) = 1 /\ field[1] \in NumberTokens

\* i64 division truncates toward zero
TruncDiv(a, b) ==
    IF (a >= 0) = (b > 0) THEN a \div b
    ELSE IF a >= 0 THEN -(a \div (-b)) ELSE -((-a) \div b)

\* Option<T>: <<>> is None, <<v>> is Some(v)
None == <<>>
Some(v) == <<v>>
is_some(o) == o # <<>>
unwrap(o) == o[1]

(* -------------------------- pattern evaluator ------------------------- *)
\* The token keys of the model, by the prefix the match arms test.
PubdateKeys == {"pubdate::unix"}
Id3Keys == {"id3::title", "id3::artist"}
EpisodeKeys == {"rss::episode::title", "rss::episode::nokey"}
ChannelKeys == {"rss::channel::title", "rss::channel::nokey"}

Ok(s) == [st |-> "ok", s |-> s]
Exit == [st |-> "exit", s |-> <<>>]
Panic == [st |-> "panic", s |-> <<>>]

\* Episode::get_text_value: the raw per-episode field, when the item has it
get_text_value(episode, k) ==
    IF k = "rss::episode::title" THEN Some(episode.title) ELSE None

\* Podcast::get_text_attribute: channel.get(key).unwrap().as_str()
get_text_attribute(self, k) ==
    IF k = "rss::channel::title" THEN Ok(self.channel_title) ELSE Panic

\* Tag::get(tag).and_then(text): the text of a frame the tag set holds
tag_text(tags, k) ==
    IF k = "id3::title" /\ "title" \in DOMAIN tags THEN Some(tags["title"]) ELSE None

unwrap_or(o, d) == IF is_some(o) THEN unwrap(o) ELSE d

\* The match of evaluate_pattern on one captured key, arm by arm.  A key of
\* several tokens is none of the keys above and ends in the last arm.
Replacement(self, key, tags, episode) ==
    LET k == IF Len(key) = 1 THEN key[1] ELSE "" IN
    IF k \in PubdateKeys /\ is_some(episode)
        THEN Ok(to_string(unwrap(episode).published))
    ELSE IF k \in Id3Keys /\ is_some(tags)
        THEN Ok(unwrap_or(tag_text(unwrap(tags), k), null))
    ELSE IF k \in EpisodeKeys /\ is_some(episode)
        THEN Ok(unwrap_or(get_text_value(unwrap(episode), k), null))
    ELSE IF k \in ChannelKeys
        THEN get_text_attribute(self, k)
    ELSE IF k = "guid" /\ is_some(episode) THEN Ok(unwrap(episode).guid)
    ELSE IF k = "url" /\ is_some(episode) THEN Ok(unwrap(episode).url)
    ELSE IF k = "podname" THEN Ok(self.name)
    ELSE IF k = "appname" THEN Ok(APPNAME)
    ELSE IF k = "home" THEN Ok(HomeDir)
    ELSE Exit

\* the first "}" after position i, or 0
RECURSIVE CloseAfter(_, _)
CloseAfter(pat, i) ==
    IF i >= Len(pat) THEN 0
    ELSE IF pat[i + 1] = "}" THEN i + 1
    ELSE CloseAfter(pat, i + 1)

\* The captures of \{([^\}]+)\} from left to right: a "{" opens a capture
\* when a "}" follows after at least one other token.
RECURSIVE EvaluateFrom(_, _, _, _, _, _)
EvaluateFrom(self, pat, i, tags, episode, result) ==
    IF i > Len(pat) THEN Ok(result)
    ELSE LET j == IF pat[i] = "{" THEN CloseAfter(pat, i) ELSE 0 IN
         IF j > i + 1
         THEN LET r == Replacement(self, SubSeq(pat, i + 1, j - 1), tags, episode) IN
              IF r.st # "ok" THEN r
              ELSE EvaluateFrom(self, pat, j + 1, tags, episode, result \o r.s)
         ELSE EvaluateFrom(self, pat, i + 1, tags, episode, Append(result, pat[i]))

evaluate_pattern(self, pattern, tags, episode) ==
    EvaluateFrom(self, pattern, 1, tags, episode, <<>>)

get_id(self, episode) ==
    LET r == evaluate_pattern(self, self.config.id_pattern, None, Some(episode)) IN
    IF r.st = "ok" THEN Ok(replace(r.s, " ", "_")) ELSE r

(* --------------------------- selection policy ------------------------- *)
\* a - b in usize: a build with overflow checks panics on a negative
\* difference, a build without them wraps
usize_sub(a, b, overflow_checks) ==
    IF a >= b THEN Some(a - b)
    ELSE IF overflow_checks THEN None
    ELSE Some(a - b + UsizeModulus)

Backlog(start, interval) ==
    [kind |-> "Backlog", start |-> start, interval |-> interval,
     max_days |-> None, max_episodes |-> None, earliest_date |-> None]

Standard(max_days, max_episodes, earliest_date) ==
    [kind |-> "Standard", start |-> 0, interval |-> 0,
     max_days |-> max_days, max_episodes |-> max_episodes,
     earliest_date |-> earliest_date]

\* the Backlog arm with a strict comparison
backlog_eligible_strict(mode, episode, now) ==
    IF mode.interval = 0 THEN "panic"
    ELSE LET days_passed == TruncDiv(now - mode.start, SECS_PER_DAY)
             current_backlog_index == TruncDiv(days_passed, mode.interval)
         IN IF current_backlog_index > episode.index THEN "yes" ELSE "no"

\* the Backlog arm of should_download
backlog_eligible(mode, episode, now) ==
    IF mode.interval = 0 THEN "panic"
    ELSE LET days_passed == TruncDiv(now - mode.start, SECS_PER_DAY)
             current_backlog_index == TruncDiv(days_passed, mode.interval)
         IN IF current_backlog_index >= episode.index THEN "yes" ELSE "no"

max_days_exceeded(mode, episode, now) ==
    is_some(mode.max_days)
    /\ (now - episode.published) > unwrap(mode.max_days) * SECS_PER_DAY

\* the closure with the highest index in the place of the episode count
max_episodes_exceeded_from_highest(mode, episode, latest_episode, overflow_checks) ==
    IF ~is_some(mode.max_episodes) THEN "no"
    ELSE LET d == usize_sub(latest_episode - 1, unwrap(mode.max_episodes), overflow_checks) IN
         IF ~is_some(d) THEN "panic"
         ELSE IF unwrap(d) > episode.index THEN "yes" ELSE "no"

\* the closure max_episodes_exceeded: "yes", "no", or "panic" on underflow
max_episodes_exceeded(mode, episode, latest_episode, overflow_checks) ==
    IF ~is_some(mode.max_episodes) THEN "no"
    ELSE LET d == usize_sub(latest_episode, unwrap(mode.max_episodes), overflow_checks) IN
         IF ~is_some(d) THEN "panic"
         ELSE IF unwrap(d) > episode.index THEN "yes" ELSE "no"

episode_too_old(mode, episode) ==
    is_some(mode.earliest_date) /\ unwrap(mode.earliest_date) > episode.published

\* the Standard arm: the three closures run left to right and stop at the
\* first bound that is exceeded
standard_eligible(mode, episode, latest_episode, now, overflow_checks) ==
    IF max_days_exceeded(mode, episode, now) THEN "no"
    ELSE LET m == max_episodes_exceeded(mode, episode, latest_episode, overflow_checks) IN
         IF m = "panic" THEN "panic"
         ELSE IF m = "yes" THEN "no"
         ELSE IF episode_too_old(mode, episode) THEN "no" ELSE "yes"

\* should_download without the look-up in the ledger
should_download_unledgered(self, episode, latest_episode, downloaded, now) ==
    LET id == get_id(self, episode) IN
    IF id.st # "ok" THEN id.st
    ELSE IF self.config.mode.kind = "Backlog"
         THEN backlog_eligible(self.config.mode, episode, now)
    ELSE standard_eligible(self.config.mode, episode, latest_episode, now,
                           self.overflow_checks)

\* should_download: "yes", "no", or the way the process ends ("exit" on an
\* invalid tag of the id pattern, "panic")
should_download(self, episode, latest_episode, downloaded, now) ==
    LET id == get_id(self, episode) IN
    IF id.st # "ok" THEN id.st
    ELSE IF id.s \in downloaded THEN "no"
    ELSE IF self.config.mode.kind = "Backlog"
         THEN backlog_eligible(self.config.mode, episode, now)
    ELSE standard_eligible(self.config.mode, episode, latest_episode, now,
                           self.overflow_checks)

(* --------------------------- completion ledger ------------------------ *)
\* The file .downloaded: whether it exists, and its text.
NoLedger == [exists |-> FALSE, text |-> <<>>]

\* one pass of the loop of DownloadedEpisodes::load over the lines
RECURSIVE LoadLines(_, _, _)
LoadLines(ls, i, hashmap) ==
    IF i > Len(ls) THEN [st |-> "ok", ids |-> hashmap]
    ELSE LET parts == split_whitespace(ls[i]) IN
         IF Len(parts) >= 2
         THEN IF ParsesAsI64(parts[2])
              THEN LoadLines(ls, i + 1, hashmap \cup {parts[1]})
              ELSE [st |-> "panic", ids |-> {}]
         ELSE LoadLines(ls, i + 1, hashmap)

\* DownloadedEpisodes::load: the set of the keys of the map it builds
load(file) ==
    IF ~file.exists THEN [st |-> "ok", ids |-> {}]
    ELSE LoadLines(lines(trim(file.text)), 1, {})

\* the line writeln! formats: id, the time, the quoted title, a newline
ledger_line(id, now, title) ==
    id \o <<" ">> \o to_string(now) \o <<" ", "\"">> \o title \o <<"\"", "\n">>

\* DownloadedEpisodes::append: open with append and create, write one line
append(file, id, now, title) ==
    [exists |-> TRUE, text |-> file.text \o ledger_line(id, now, title)]

(* ------------------------------ episodes ------------------------------ *)
\* slice::sort_by_key is stable: x goes after the elements whose key is not
\* larger; the key is a field of the elements
RECURSIVE InsertByKey(_, _, _)
InsertByKey(sorted, x, key) ==
    IF sorted = <<>> THEN <<x>>
    ELSE IF sorted[Len(sorted)][key] <= x[key] THEN Append(sorted, x)
    ELSE Append(InsertByKey(SubSeq(sorted, 1, Len(sorted) - 1), x, key),
                sorted[Len(sorted)])

RECURSIVE SortPrefix(_, _, _)
SortPrefix(v, n, key) ==
    IF n = 0 THEN <<>> ELSE InsertByKey(SortPrefix(v, n - 1, key), v[n], key)

sort_by_key(v, key) == SortPrefix(v, Len(v), key)

reverse(v) == [i \in 1..Len(v) |-> v[Len(v) + 1 - i]]

\* Episode::new(&item, 0, obj): the episode of an item, with index 0, or
\* None for an item that lacks what an episode needs
Episode_new(item) ==
    IF item.complete
    THEN Some([guid |-> item.guid, url |-> item.url, title |-> item.title,
               published |-> item.published, index |-> 0,
               obj |-> item.obj, ctype |-> item.ctype])
    ELSE None

\* the loop of episodes over channel.items(): an item without a guid is
\* skipped, and so is an item Episode::new gives no episode for
RECURSIVE BuildFrom(_, _)
BuildFrom(items, i) ==
    IF i > Len(items) THEN <<>>
    ELSE IF ~items[i].has_guid THEN BuildFrom(items, i + 1)
    ELSE Episode_new(items[i]) \o BuildFrom(items, i + 1)

\* the index of each episode set to its position
set_index(vec) == [i \in 1..Len(vec) |-> [vec[i] EXCEPT !.index = i - 1]]

\* episodes that keeps the order of the feed
episodes_in_feed_order(self) == set_index(BuildFrom(self.feed, 1))

\* Podcast::episodes: the episodes built from the items, sorted by publish
\* time, the index set by position
episodes(self) == set_index(sort_by_key(BuildFrom(self.feed, 1), "published"))

\* Podcast::download_folder up to create_dir_all: the evaluated pattern
download_folder(self) == evaluate_pattern(self, self.config.download_path, None, None)

\* the filter of pending_episodes, episode by episode in index order: the
\* first call of should_download that ends the process ends the filter
RECURSIVE FilterFrom(_, _, _, _, _, _)
FilterFrom(self, eps, i, downloaded, now, kept) ==
    IF i > Len(eps) THEN [st |-> "ok", queue |-> kept]
    ELSE LET r == should_download(self, eps[i], Len(eps), downloaded, now) IN
         IF r = "yes" THEN FilterFrom(self, eps, i + 1, downloaded, now, Append(kept, eps[i]))
         ELSE IF r = "no" THEN FilterFrom(self, eps, i + 1, downloaded, now, kept)
         ELSE [st |-> r, queue |-> <<>>]

\* the queue in ascending order in both modes
queue_order_ascending(mode, eps) == sort_by_key(eps, "index")

\* the queue in descending order in both modes
queue_order_descending(mode, eps) == reverse(sort_by_key(eps, "index"))

\* the order of the queue by mode
queue_order(mode, eps) ==
    IF mode.kind = "Backlog" THEN sort_by_key(eps, "index")
    ELSE reverse(sort_by_key(eps, "index"))

\* pending_episodes that queues every episode of the feed
pending_episodes_unfiltered(self, file, now) ==
    [st |-> "ok", queue |-> queue_order(self.config.mode, episodes(self))]

\* Podcast::pending_episodes after download_folder: load the ledger, filter,
\* order
pending_episodes(self, file, now) ==
    LET downloaded == load(file) IN
    IF downloaded.st # "ok" THEN [st |-> downloaded.st, queue |-> <<>>]
    ELSE LET f == FilterFrom(self, episodes(self), 1, downloaded.ids, now, <<>>) IN
         IF f.st # "ok" THEN f
         ELSE [st |-> "ok", queue |-> queue_order(self.config.mode, f.queue)]

(* --------------------------- files and server ------------------------- *)
\* A path inside the download folder: the file stem and the extension.
PathOf(stem, extension) == [stem |-> stem, ext |-> extension]

\* format!("{}.partial", episode.guid) joined to the download folder
partial_path_of(episode) == PathOf(episode.guid, PARTIAL)

\* std::fs::rename: the target takes the content, the source is gone
rename(fs, from, to) ==
    [p \in (DOMAIN fs \ {from}) \cup {to} |-> IF p = to THEN fs[from] ELSE fs[p]]

\* File::write_all at the position of the handle
write_at(content, pos, chunk) ==
    LET n == IF pos + Len(chunk) > Len(content) THEN pos + Len(chunk) ELSE Len(content) IN
    [i \in 1..n |-> IF i > pos /\ i <= pos + Len(chunk) THEN chunk[i - pos] ELSE content[i]]

\* the body of an error page: a byte no remote object holds
ErrorPage == <<0>>

\* the headers a body can come with: the Content-Length of the body, or
\* none (a chunked response)
Declared(body, ctype) ==
    {[body |-> body, ctype |-> ctype, content_length |-> l] :
        l \in {Some(Len(body)), None}}

\* What the media server answers.  Without a Range header it sends the whole
\* object; for "bytes=offset-" inside the object it sends the bytes from
\* offset to the end (206); for an offset at or past the end the range is
\* unsatisfiable and it sends an error response (416), with or without a body.
Responses(episode, range) ==
    IF ~is_some(range)
    THEN Declared(episode.obj, episode.ctype)
    ELSE IF unwrap(range) < Len(episode.obj)
    THEN Declared(SubSeq(episode.obj, unwrap(range) + 1, Len(episode.obj)),
                  episode.ctype)
    ELSE UNION {Declared(b, "text/html") : b \in {<<>>, ErrorPage}}

\* the extension download_episode infers from the declared content type:
\* "mp3" when the type lists it, else the first extension of the type, and
\* no extension (a panic) for a type mime_guess does not know
extension_of(ctype) ==
    IF ctype = "audio/mpeg" THEN Some("mp3")
    ELSE IF ctype = "audio/mp4" THEN Some("m4a")
    ELSE IF ctype = "text/html" THEN Some("htm")
    ELSE None

\* download_episode without the resume: no Range header at all
range_header_absent(downloaded) == None

\* the Range header download_episode attaches
range_header(downloaded) == IF downloaded > 0 THEN Some(downloaded) ELSE None

Min(a, b) == IF a <= b THEN a ELSE b

(* ------------------------------ the state ----------------------------- *)
VARIABLES
    podcast,         \* the Podcast: name, channel, feed items, config, build
    now,             \* current_unix()
    runs,            \* the number of the sync run of this subscription
    pc,              \* where sync is, or how the process ended
    queue,           \* sync: the episodes of the queue not yet started
    episode,         \* sync: the episode in work (an Option)
    downloaded,      \* download_episode: the byte counter `downloaded`
    total_size,      \* download_episode: the declared content length
    file_pos,        \* download_episode: the position of the file handle
    stream,          \* download_episode: the bytes the response still holds
    path,            \* DownloadedEpisode.path (an Option)
    sync_downloaded, \* sync: the vector `downloaded`, as its paths
    hook_handles,    \* sync: the hook tasks: state, path argument, episode
    dir_exists,      \* file system: the download folder exists
    files,           \* file system: the media files, path -> bytes
    ledger,          \* file system: the file .downloaded
    log,             \* history: the file and network operations of the run
    start_content,   \* history: the staging file as download_episode found it
    marked,          \* history: the guids mark_downloaded has ledgered
    run_start,       \* history: the ledger the run found, the queue it chose
    probe,           \* the selection-policy probe (SpecPolicy)
    loader           \* load_all (SpecLoad)

vars == <<podcast, now, runs, pc, queue, episode, downloaded, total_size, file_pos,
          stream, path, sync_downloaded, hook_handles, dir_exists, files, ledger,
          log, start_content, marked, run_start, probe, loader>>

memory == <<queue, episode, downloaded, total_size, file_pos, stream, path,
            sync_downloaded, hook_handles>>
disk == <<dir_exists, files, ledger>>
others == <<probe, loader>>
history == <<start_content, marked, run_start>>

Terminal == {"returned", "panicked", "exited", "killed"}

\* how the process ends on a result that is not "ok"
EndOf(st) == IF st = "exit" THEN "exited" ELSE "panicked"

Event(op, ep, n) == [op |-> op, ep |-> ep, n |-> n]

(* ------------------------------ the inputs ---------------------------- *)
Tok(k) == <<"{", k, "}">>

DirPattern == Tok("home") \o <<"/">> \o Tok("podname")
NamePattern == Tok("rss::episode::title")
IdPattern == Tok("guid")
UnknownToken == <<"x">> \o Tok("nosuchtoken")

Patterns(d, n, i) == [download_path |-> d, name_pattern |-> n, id_pattern |-> i]

PatternConfigs ==
    {Patterns(DirPattern, NamePattern, IdPattern),
     Patterns(DirPattern, Tok("id3::title") \o <<"-">> \o Tok("pubdate::unix"), IdPattern),
     Patterns(DirPattern \o <<"/">> \o Tok("guid"), NamePattern, IdPattern),
     Patterns(UnknownToken, NamePattern, IdPattern),
     Patterns(DirPattern, UnknownToken, IdPattern),
     Patterns(DirPattern, NamePattern, UnknownToken)}

Config(mode, pat, hook) ==
    [mode |-> mode, download_path |-> pat.download_path,
     name_pattern |-> pat.name_pattern, id_pattern |-> pat.id_pattern,
     download_hook |-> hook]

\* the remote object of item k, n bytes long
Object(k, n) == [i \in 1..n |-> 10 * k + i]

Item(k, guid, title, published, n, ctype) ==
    [guid |-> guid, url |-> <<"u">> \o guid, title |-> title,
     published |-> published, obj |-> Object(k, n), ctype |-> ctype,
     has_guid |-> TRUE, complete |-> TRUE]

\* two items, the newer first as feeds list them
FeedTwo(n) ==
    <<Item(2, <<"b">>, <<"t", " ", "b">>, SECS_PER_DAY, n, "audio/mpeg"),
      Item(1, <<"a">>, <<"t", "a">>, 0, 1, "audio/mp4")>>

\* two items whose guids give the same ledger id
FeedSameId ==
    <<Item(2, <<"a", "_", "b">>, <<"t", "b">>, SECS_PER_DAY, 1, "audio/mpeg"),
      Item(1, <<"a", " ", "b">>, <<"t", "a">>, 0, 1, "audio/mpeg")>>

\* eight items, all published on day 0, in feed order
FeedEight ==
    [k \in 1..8 |-> Item(k, <<"e", ToString(k)>>, <<"t", ToString(k)>>, 0, 1, "audio/mpeg")]

Modes ==
    {Backlog(0, 1),
     Standard(None, None, None),
     Standard(None, Some(1), None),
     Standard(Some(0), None, None),
     Standard(None, None, Some(SECS_PER_DAY)),
     Standard(None, Some(3), None)}

Podcast(config, feed, checks) ==
    [name |-> <<"p">>, channel_title |-> <<"c", "t">>, config |-> config,
     feed |-> feed, overflow_checks |-> checks]

DefaultPatterns == Patterns(DirPattern, NamePattern, IdPattern)

\* subscriptions with a download hook, in the modes without bounds
HookPodcasts ==
    {Podcast(Config(m, DefaultPatterns, TRUE), FeedTwo(n), TRUE) :
        m \in {Backlog(0, 1), Standard(None, None, None)}, n \in 1..MaxLen}

\* every mode without a hook; one subscription with a hook; a build without
\* overflow checks in the modes that subtract max_episodes
Podcasts ==
    {Podcast(Config(m, DefaultPatterns, FALSE), FeedTwo(n), TRUE) :
        m \in Modes, n \in 1..MaxLen}
    \cup {Podcast(Config(Standard(None, None, None), DefaultPatterns, TRUE),
                  FeedTwo(1), TRUE)}
    \cup {Podcast(Config(m, DefaultPatterns, FALSE), FeedTwo(n), FALSE) :
        m \in {Standard(None, Some(1), None), Standard(None, Some(3), None)},
        n \in 1..MaxLen}
    \cup {Podcast(Config(m, pat, FALSE), FeedTwo(MaxLen), TRUE) :
        m \in {Backlog(0, 1), Standard(None, None, None)}, pat \in PatternConfigs}
    \cup {Podcast(Config(m, DefaultPatterns, FALSE), FeedSameId, TRUE) :
        m \in {Backlog(0, 1), Standard(None, None, None)}}
    \cup {Podcast(Config(Standard(None, Some(n), None), DefaultPatterns, FALSE),
                  FeedEight, TRUE) : n \in {2, 3}}

\* the indices of a sequence of episodes
Indices(eps) == [i \in 1..Len(eps) |-> eps[i].index]

RunStart(file) == [ledger |-> file, queue |-> <<>>]

NoProbe == [kind |-> "none"]
NoLoader == [pc |-> "none"]

Fresh ==
    /\ queue = <<>>
    /\ episode = None
    /\ downloaded = 0
    /\ total_size = 0
    /\ file_pos = 0
    /\ stream = <<>>
    /\ path = None
    /\ sync_downloaded = <<>>
    /\ hook_handles = <<>>

\* the program and the disk before the first sync of the subscription
BeforeSync ==
    /\ now = 0
    /\ runs = 1
    /\ pc = "start"
    /\ Fresh
    /\ dir_exists = FALSE
    /\ files = <<>>
    /\ ledger = NoLedger
    /\ log = <<>>
    /\ start_content = <<>>
    /\ marked = {}
    /\ run_start = RunStart(NoLedger)
    /\ probe = NoProbe
    /\ loader = NoLoader

Init == podcast \in Podcasts /\ BeforeSync

(* ------------------------------ the actions --------------------------- *)
\* the entry that create_dir_all leaves in the log: it creates the folder
\* only when the folder is missing
CreateDirLog == IF dir_exists THEN <<>> ELSE <<Event("create_dir", -1, 0)>>

\* sync up to the loop: set_download_style and pending_episodes, which is
\* download_folder (evaluate, create_dir_all), episodes, load, filter, sort
sync_pending_episodes ==
    /\ pc = "start"
    /\ LET d == download_folder(podcast) IN
       IF d.st # "ok"
       THEN /\ pc' = EndOf(d.st)
            /\ UNCHANGED <<queue, dir_exists, log, run_start>>
       ELSE LET p == pending_episodes(podcast, ledger, now) IN
            /\ dir_exists' = TRUE
            /\ log' = log \o CreateDirLog
            /\ pc' = IF p.st = "ok" THEN "loop" ELSE EndOf(p.st)
            /\ queue' = p.queue
            /\ run_start' = [run_start EXCEPT !.queue = Indices(p.queue)]
    /\ UNCHANGED <<podcast, now, runs, episode, downloaded, total_size, file_pos,
                   stream, path, sync_downloaded, hook_handles, files, ledger,
                   start_content, marked, others>>

\* download_episode up to the request: download_folder, then open the
\* staging file at its end, or create it
download_episode_open ==
    /\ pc = "loop"
    /\ queue # <<>>
    /\ LET e == Head(queue)
           pp == partial_path_of(e)
           d == download_folder(podcast)
       IN /\ episode' = Some(e)
          /\ queue' = Tail(queue)
          /\ IF d.st # "ok"
             THEN /\ pc' = EndOf(d.st)
                  /\ UNCHANGED <<downloaded, file_pos, files, dir_exists, log, start_content>>
             ELSE /\ pc' = "opened"
                  /\ dir_exists' = TRUE
                  /\ IF pp \in DOMAIN files
                     THEN /\ downloaded' = Len(files[pp])
                          /\ file_pos' = Len(files[pp])
                          /\ start_content' = files[pp]
                          /\ files' = files
                          /\ log' = log \o CreateDirLog \o <<Event("open", e.index, Len(files[pp]))>>
                     ELSE /\ downloaded' = 0
                          /\ file_pos' = 0
                          /\ start_content' = <<>>
                          /\ files' = [p \in DOMAIN files \cup {pp} |->
                                          IF p = pp THEN <<>> ELSE files[p]]
                          /\ log' = log \o CreateDirLog \o <<Event("create", e.index, 0)>>
    /\ UNCHANGED <<podcast, now, runs, total_size, stream, path, sync_downloaded,
                   hook_handles, ledger, marked, run_start, others>>

\* the request is sent and the response's head arrives: total_size is
\* content_length().unwrap_or(0), the extension goes by the content type
download_episode_send ==
    /\ pc = "opened"
    /\ LET e == unwrap(episode)
           range == range_header(downloaded)
       IN \E resp \in Responses(e, range) :
            /\ log' = Append(log, Event("request", e.index, unwrap_or(range, 0)))
            /\ IF is_some(extension_of(resp.ctype))
               THEN /\ pc' = "streaming"
                    /\ total_size' = unwrap_or(resp.content_length, 0)
                    /\ stream' = resp.body
                    /\ path' = Some(PathOf(e.guid, unwrap(extension_of(resp.ctype))))
               ELSE /\ pc' = "panicked"
                    /\ UNCHANGED <<total_size, stream, path>>
    /\ UNCHANGED <<podcast, now, runs, queue, episode, downloaded, file_pos,
                   sync_downloaded, hook_handles, disk, history, others>>

\* send().await.unwrap() on a request error
download_episode_send_fails ==
    /\ pc = "opened"
    /\ pc' = "panicked"
    /\ log' = Append(log, Event("request_failed", unwrap(episode).index, 0))
    /\ UNCHANGED <<podcast, now, runs, memory, disk, history, others>>

\* one turn of the stream loop: a chunk arrives and is written
download_episode_chunk ==
    /\ pc = "streaming"
    /\ stream # <<>>
    /\ \E k \in 1..Min(MaxChunk, Len(stream)) :
         LET pp == partial_path_of(unwrap(episode))
             chunk == SubSeq(stream, 1, k)
         IN /\ files' = [files EXCEPT ![pp] = write_at(files[pp], file_pos, chunk)]
            /\ file_pos' = file_pos + k
            /\ downloaded' = Min(downloaded + k, total_size)
            /\ stream' = SubSeq(stream, k + 1, Len(stream))
            /\ log' = Append(log, Event("write", unwrap(episode).index, k))
    /\ UNCHANGED <<podcast, now, runs, pc, queue, episode, total_size, path,
                   sync_downloaded, hook_handles, dir_exists, ledger, history, others>>

\* a stream error that is skipped: the loop of sync goes on with the next
\* episode of the queue
download_episode_chunk_skipped ==
    /\ pc = "streaming"
    /\ stream # <<>>
    /\ pc' = "loop"
    /\ episode' = None
    /\ log' = Append(log, Event("chunk_failed", unwrap(episode).index, 0))
    /\ UNCHANGED <<podcast, now, runs, queue, downloaded, total_size, file_pos, stream,
                   path, sync_downloaded, hook_handles, disk, history, others>>

\* item.unwrap() on a stream error, or write_all(..).unwrap() on a write error
download_episode_chunk_fails ==
    /\ pc = "streaming"
    /\ stream # <<>>
    /\ pc' = "panicked"
    /\ log' = Append(log, Event("chunk_failed", unwrap(episode).index, 0))
    /\ UNCHANGED <<podcast, now, runs, memory, disk, history, others>>

\* the stream has ended: rename the staging file to the name with the
\* inferred extension
download_episode_rename ==
    /\ pc = "streaming"
    /\ stream = <<>>
    /\ LET pp == partial_path_of(unwrap(episode)) IN
         /\ files' = rename(files, pp, unwrap(path))
         /\ log' = Append(log, Event("rename", unwrap(episode).index, 0))
    /\ pc' = "downloaded"
    /\ UNCHANGED <<podcast, now, runs, queue, episode, downloaded, total_size, file_pos,
                   stream, path, sync_downloaded, hook_handles, dir_exists, ledger,
                   history, others>>

\* the tag set set_mp3_tags returns, kept for an mp3 file only
mp3_tags(e, file_path) ==
    IF file_path.ext = "mp3" THEN Some([title |-> e.title]) ELSE None

\* rename_file that leaves the file under the name it has
new_name_unchanged(file, result) == file

\* rename_file: the new name is the evaluated filename pattern with the
\* extension of the file
new_name_of(file, result) == PathOf(result, file.ext)

\* normalize_episode: tags, then rename_file
normalize_episode ==
    /\ pc = "downloaded"
    /\ LET e == unwrap(episode)
           file_path == unwrap(path)
           r == evaluate_pattern(podcast, podcast.config.name_pattern,
                                 mp3_tags(e, file_path), Some(e))
       IN IF r.st # "ok"
          THEN /\ pc' = EndOf(r.st)
               /\ UNCHANGED <<files, path, log>>
          ELSE /\ pc' = "normalized"
               /\ files' = rename(files, file_path, new_name_of(file_path, r.s))
               /\ path' = Some(new_name_of(file_path, r.s))
               /\ log' = Append(log, Event("rename_file", e.index, 0))
    /\ UNCHANGED <<podcast, now, runs, queue, episode, downloaded, total_size, file_pos,
                   stream, sync_downloaded, hook_handles, dir_exists, ledger,
                   history, others>>

\* mark_downloaded: download_folder, get_id, DownloadedEpisodes::append
mark_downloaded ==
    /\ pc = "normalized"
    /\ LET e == unwrap(episode)
           d == download_folder(podcast)
           id == get_id(podcast, e)
       IN IF d.st # "ok" \/ id.st # "ok"
          THEN /\ pc' = EndOf(IF d.st # "ok" THEN d.st ELSE id.st)
               /\ UNCHANGED <<dir_exists, ledger, log, marked>>
          ELSE /\ pc' = "marked"
               /\ dir_exists' = TRUE
               /\ ledger' = append(ledger, id.s, now, e.title)
               /\ log' = log \o CreateDirLog \o <<Event("append", e.index, 0)>>
               /\ marked' = marked \cup {e.guid}
    /\ UNCHANGED <<podcast, now, runs, memory, files, start_content, run_start, others>>

\* a hook that is given the staging path of the episode
HookTask_staging(p, e) ==
    [state |-> "running", path |-> partial_path_of(e), ep |-> e.index]

\* the task run_download_hook spawns for the file at path p of episode e
HookTask(p, e) == [state |-> "running", path |-> p, ep |-> e.index]

\* run_download_hook and the push that ends one turn of the loop of sync
run_download_hook ==
    /\ pc = "marked"
    /\ hook_handles' = IF podcast.config.download_hook
                       THEN Append(hook_handles, HookTask(unwrap(path), unwrap(episode)))
                       ELSE hook_handles
    /\ log' = IF podcast.config.download_hook
              THEN Append(log, Event("spawn", unwrap(episode).index, 0)) ELSE log
    /\ sync_downloaded' = Append(sync_downloaded, unwrap(path))
    /\ episode' = None
    /\ pc' = "loop"
    /\ UNCHANGED <<podcast, now, runs, queue, downloaded, total_size, file_pos, stream,
                   path, disk, history, others>>

\* what Command::output() gives: the program could not be started, or it
\* ran and exited with a failure or with success
HookOutcomes == {"not_started", "failed", "succeeded"}

\* a hook whose failure ends the process
hook_finish_propagated ==
    /\ pc \notin Terminal
    /\ \E i \in 1..Len(hook_handles), outcome \in HookOutcomes :
         /\ hook_handles[i].state = "running"
         /\ hook_handles' = [hook_handles EXCEPT ![i].state = outcome]
         /\ pc' = IF outcome = "succeeded" THEN pc ELSE "panicked"
    /\ UNCHANGED <<podcast, now, runs, queue, episode, downloaded, total_size,
                   file_pos, stream, path, sync_downloaded, disk, log, history,
                   others>>

\* a hook task ends: Command::output() has returned and `let _ =` drops
\* its result, whatever the outcome
hook_finish ==
    /\ pc \notin Terminal
    /\ \E i \in 1..Len(hook_handles), outcome \in HookOutcomes :
         /\ hook_handles[i].state = "running"
         /\ hook_handles' = [hook_handles EXCEPT ![i].state = outcome]
    /\ UNCHANGED <<podcast, now, runs, pc, queue, episode, downloaded, total_size,
                   file_pos, stream, path, sync_downloaded, disk, log, history,
                   others>>

\* sync that returns without the join
join_all_skipped(handles) == TRUE

\* futures::future::join_all(hook_handles).await is over: no task is running
join_all(handles) == \A i \in 1..Len(handles) : handles[i].state # "running"

\* the loop is over: join_all on the hook handles, mark_complete, return
sync_return ==
    /\ pc = "loop"
    /\ queue = <<>>
    /\ join_all(hook_handles)
    /\ pc' = "returned"
    /\ UNCHANGED <<podcast, now, runs, memory, disk, log, history, others>>

\* the process is interrupted
interrupt ==
    /\ pc \in {"start", "loop", "opened", "streaming", "downloaded", "normalized", "marked"}
    /\ pc' = "killed"
    /\ UNCHANGED <<podcast, now, runs, memory, disk, log, history, others>>

\* the next run of the program: the memory is new, the disk is as it was left
next_run ==
    /\ pc \in Terminal
    /\ runs < MaxRuns
    /\ runs' = runs + 1
    /\ pc' = "start"
    /\ queue' = <<>>
    /\ episode' = None
    /\ downloaded' = 0
    /\ total_size' = 0
    /\ file_pos' = 0
    /\ stream' = <<>>
    /\ path' = None
    /\ sync_downloaded' = <<>>
    /\ hook_handles' = <<>>
    /\ log' = <<>>
    /\ start_content' = <<>>
    /\ run_start' = RunStart(ledger)
    /\ UNCHANGED <<podcast, now, disk, marked, others>>

\* a day passes; the program reads the clock in pending_episodes and in
\* mark_downloaded, so the days pass right before these
tick ==
    /\ pc \in {"start", "normalized"}
    /\ now < MaxDay * SECS_PER_DAY
    /\ now' = now + SECS_PER_DAY
    /\ UNCHANGED <<podcast, runs, pc, memory, disk, log, history, others>>

Next ==
    \/ sync_pending_episodes
    \/ download_episode_open
    \/ download_episode_send
    \/ download_episode_send_fails
    \/ download_episode_chunk
    \/ download_episode_chunk_fails
    \/ download_episode_rename
    \/ normalize_episode
    \/ mark_downloaded
    \/ run_download_hook
    \/ hook_finish
    \/ sync_return
    \/ interrupt
    \/ next_run
    \/ tick

Spec == Init /\ [][Next]_vars

\* the sync of a subscription that has a download hook configured
HookInit == podcast \in HookPodcasts /\ BeforeSync

SpecHooks == HookInit /\ [][Next]_vars

(* ---------------------- the selection-policy probes ------------------ *)
\* The sync variables while another specification runs.
Off ==
    /\ podcast = Podcast(Config(Standard(None, None, None), DefaultPatterns, FALSE),
                         <<>>, TRUE)
    /\ now = 0
    /\ runs = 0
    /\ Fresh
    /\ dir_exists = FALSE
    /\ files = <<>>
    /\ ledger = NoLedger
    /\ log = <<>>
    /\ start_content = <<>>
    /\ marked = {}
    /\ run_start = RunStart(NoLedger)

sync_vars == <<podcast, now, runs, pc, memory, disk, log, history>>

ProbeOf(mode, index, count, time, checks) ==
    [mode |-> mode, index |-> index, count |-> count, now |-> time,
     checks |-> checks, result |-> "unset"]

\* a backlog that starts at T0, seen 0, 1 and 86399 seconds into the day,
\* and one second before T0 when the clock can show that time
BacklogProbes ==
    {q \in {ProbeOf(Backlog(T0, k), N, MaxBacklogIndex + 1, T0 + off, TRUE) :
                T0 \in {0, 1000}, k \in 1..MaxInterval, N \in 0..MaxBacklogIndex,
                off \in {-1, 0, 1, SECS_PER_DAY - 1}} : q.now >= 0}

\* a feed of count episodes with max_episodes set and no other bound
StandardProbes ==
    {ProbeOf(Standard(None, Some(m), None), i, c, 0, b) :
        c \in 1..MaxCount, m \in 0..MaxMaxEpisodes, i \in 0..(MaxCount - 1),
        b \in BOOLEAN}

PolicyInit ==
    /\ Off
    /\ pc = "policy"
    /\ probe \in BacklogProbes \cup {q \in StandardProbes : q.index < q.count}
    /\ loader = NoLoader

\* the podcast and the episode of a probe; the ledger of a probe is empty
ProbePodcast(q) ==
    Podcast(Config(q.mode, DefaultPatterns, FALSE), <<>>, q.checks)

ProbeEpisode(q) ==
    [guid |-> <<"a">>, url |-> <<"u">>, title |-> <<"t">>, published |-> 0,
     index |-> q.index, obj |-> <<>>, ctype |-> "audio/mpeg"]

\* should_download on the inputs of the probe
policy_apply ==
    /\ pc = "policy"
    /\ probe.result = "unset"
    /\ probe' = [probe EXCEPT !.result =
                    should_download(ProbePodcast(probe), ProbeEpisode(probe),
                                    probe.count, {}, probe.now)]
    /\ UNCHANGED <<sync_vars, loader>>

\* a day passes
policy_tick ==
    /\ pc = "policy"
    /\ probe.mode.kind = "Backlog"
    /\ probe.now + SECS_PER_DAY < probe.mode.start + (MaxBacklogDay + 1) * SECS_PER_DAY
    /\ probe' = [probe EXCEPT !.now = @ + SECS_PER_DAY, !.result = "unset"]
    /\ UNCHANGED <<sync_vars, loader>>

PolicyNext == policy_apply \/ policy_tick

SpecPolicy == PolicyInit /\ [][PolicyNext]_vars

(* ------------------------------ load_all ------------------------------ *)
SubNames == 1..MaxSubs

\* what the feed URL of a subscription gives: the request fails, the status
\* is not a success, or the text arrives, well-formed or not
FeedOutcomes == {"request_error", "bad_status", "malformed", "ok"}

\* load_xml: the text of the feed, or a panic
load_xml(outcome) ==
    IF outcome \in {"request_error", "bad_status"} THEN "panic" ELSE "text"

\* rss::Channel::read_from(..).unwrap() and xml_to_value on the text
read_from(outcome) == IF outcome = "malformed" THEN "panic" ELSE "channel"

LoadInit ==
    /\ Off
    /\ pc = "load_all"
    /\ probe = NoProbe
    /\ \E configs \in [SubNames -> [matches : BOOLEAN, feed : FeedOutcomes]] :
         loader = [pc |-> "loop", configs |-> configs, remaining |-> SubNames,
                   podcasts |-> <<>>]

\* one turn of the loop of load_all over the configured subscriptions, in
\* the order the HashMap yields them
load_all_next ==
    /\ pc = "load_all"
    /\ loader.pc = "loop"
    /\ \E name \in loader.remaining :
         LET config == loader.configs[name]
             rest == loader.remaining \ {name}
         IN IF ~config.matches
            THEN loader' = [loader EXCEPT !.remaining = rest]
            ELSE IF load_xml(config.feed) = "panic" \/ read_from(config.feed) = "panic"
            THEN loader' = [loader EXCEPT !.pc = "panicked"]
            ELSE loader' = [loader EXCEPT !.remaining = rest,
                                          !.podcasts = Append(@, name)]
    /\ UNCHANGED <<sync_vars, probe>>

\* the loop is over: load_all returns the podcasts
load_all_return ==
    /\ pc = "load_all"
    /\ loader.pc = "loop"
    /\ loader.remaining = {}
    /\ loader' = [loader EXCEPT !.pc = "returned"]
    /\ UNCHANGED <<sync_vars, probe>>

LoadNext == load_all_next \/ load_all_return

SpecLoad == LoadInit /\ [][LoadNext]_vars

(* ------------------------------ episodes() --------------------------- *)
\* item k of a feed: published on day d, with or without a guid, with or
\* without what Episode::new needs
FeedItem(k, d, g, c) ==
    [Item(k, <<"g", ToString(k)>>, <<"t", ToString(k)>>, d * SECS_PER_DAY, 1,
          "audio/mpeg") EXCEPT !.has_guid = g, !.complete = c]

\* the feed of n items with the publish days d, the guids g, the rest c
FeedOf(n, d, g, c) == [k \in 1..n |-> FeedItem(k, d[k], g[k], c[k])]

\* the feeds of at most MaxItems items, in any order of publish time
EpisodesInit ==
    /\ Off
    /\ pc = "episodes"
    /\ \E n \in 0..MaxItems :
          \E d \in [1..n -> 0..MaxPublished], g \in [1..n -> BOOLEAN],
             c \in [1..n -> BOOLEAN] :
             probe = [kind |-> "episodes", feed |-> FeedOf(n, d, g, c),
                      done |-> FALSE, result |-> <<>>]
    /\ loader = NoLoader

\* episodes() on the feed of the probe
episodes_apply ==
    /\ pc = "episodes"
    /\ ~probe.done
    /\ probe' = [probe EXCEPT !.done = TRUE, !.result =
                    episodes(Podcast(Config(Standard(None, None, None),
                                            DefaultPatterns, FALSE),
                                     probe.feed, TRUE))]
    /\ UNCHANGED <<sync_vars, loader>>

EpisodesNext == episodes_apply

SpecEpisodes == EpisodesInit /\ [][EpisodesNext]_vars

(* -------------------------- pending_episodes() ------------------------ *)
\* a feed of n items published on the days 0..n-1, listed newest first or
\* oldest first
QueueFeed(n, newest_first) ==
    [k \in 1..n |-> FeedItem(k, IF newest_first THEN n - k ELSE k - 1, TRUE, TRUE)]

QueueModes ==
    {Backlog(0, k) : k \in 1..2}
    \cup {Standard(None, Some(m), None) : m \in 0..MaxQueueEpisodes}
    \cup {Standard(None, None, None), Standard(Some(1), None, None),
          Standard(None, None, Some(SECS_PER_DAY)), Standard(Some(1), Some(2), None)}

\* the ledger file that holds one line for each of the items ks of the feed
RECURSIVE LedgerOf(_, _, _)
LedgerOf(self, feed, ks) ==
    IF ks = {} THEN NoLedger
    ELSE LET k == CHOOSE x \in ks : \A y \in ks : x >= y IN
         append(LedgerOf(self, feed, ks \ {k}),
                get_id(self, unwrap(Episode_new(feed[k]))).s, 0, feed[k].title)

\* no line, a line for one item, or a line for every item
LedgerChoices(n) == {{}} \cup {{k} : k \in 1..n} \cup {1..n}

QueueProbe(self, ks, t) ==
    [kind |-> "queue", podcast |-> self, ledger |-> LedgerOf(self, self.feed, ks),
     now |-> t, done |-> FALSE, result |-> [st |-> "ok", queue |-> <<>>]]

QueueInit ==
    /\ Off
    /\ pc = "queue"
    /\ \E n \in 0..MaxQueueItems, newest_first \in BOOLEAN, m \in QueueModes,
          c \in BOOLEAN, d \in 0..MaxQueueDay :
          \E ks \in LedgerChoices(n) :
             probe = QueueProbe(Podcast(Config(m, DefaultPatterns, FALSE),
                                        QueueFeed(n, newest_first), c),
                                ks, d * SECS_PER_DAY)
    /\ loader = NoLoader

\* pending_episodes on the podcast, the ledger and the clock of the probe
pending_episodes_apply ==
    /\ pc = "queue"
    /\ ~probe.done
    /\ probe' = [probe EXCEPT !.done = TRUE,
                              !.result = pending_episodes(probe.podcast, probe.ledger,
                                                          probe.now)]
    /\ UNCHANGED <<sync_vars, loader>>

QueueNext == pending_episodes_apply

SpecQueue == QueueInit /\ [][QueueNext]_vars

(* --------------------------- ledger load() ---------------------------- *)
\* how far a write of append got: the whole line, or a part of it
WriteShapes == {"whole", "id", "in_timestamp", "timestamp", "in_title"}

\* what a write of append for id x left in the file
Written(shape, x) ==
    LET line == ledger_line(<<x>>, SECS_PER_DAY, <<"t">>) IN
    IF shape = "whole" THEN line
    ELSE IF shape = "id" THEN <<x>>
    ELSE IF shape = "in_timestamp" THEN <<x, " ", "864">>
    ELSE IF shape = "timestamp" THEN SubSeq(line, 1, 3)
    ELSE SubSeq(line, 1, 6)

\* the file after a sequence of writes: append opens the file in append
\* mode, so each write starts where the one before ended
RECURSIVE FileOf(_)
FileOf(writes) ==
    IF writes = <<>> THEN <<>>
    ELSE FileOf(SubSeq(writes, 1, Len(writes) - 1))
            \o Written(writes[Len(writes)].shape, writes[Len(writes)].id)

LedgerWrites ==
    UNION {[1..n -> [shape : WriteShapes, id : {"a", "b"}]] : n \in 0..MaxLedgerWrites}

LedgerInit ==
    /\ Off
    /\ pc = "load"
    /\ probe \in {[kind |-> "load", writes |-> w,
                   file |-> [exists |-> TRUE, text |-> FileOf(w)],
                   done |-> FALSE, result |-> [st |-> "ok", ids |-> {}]] :
                       w \in LedgerWrites}
    /\ loader = NoLoader

\* DownloadedEpisodes::load on the file of the probe
load_apply ==
    /\ pc = "load"
    /\ ~probe.done
    /\ probe' = [probe EXCEPT !.done = TRUE, !.result = load(probe.file)]
    /\ UNCHANGED <<sync_vars, loader>>

LedgerNext == load_apply

SpecLedger == LedgerInit /\ [][LedgerNext]_vars

(* ------------------------------- claims ------------------------------- *)
\* the modes a later run can be configured with; a backlog interval of 0
\* days makes the mode check of any episode panic
LaterModes == Modes \cup {Backlog(0, 0)}
LaterTimes == {d * SECS_PER_DAY : d \in 0..MaxDay}
WithMode(self, m) == [self EXCEPT !.config.mode = m]

\* C1: once mark_downloaded has appended the id of an episode, no later
\* pending_episodes, in any mode and at any later time, queues that episode,
\* whatever the number of lines the ledger holds for the id; and the ledger
\* look-up comes before the mode check: when every episode is ledgered the
\* mode check never runs, so not even a mode whose check panics ends the run.
\* (The ledger changes in mark_downloaded only, so the runs that start from
\* the states after it and from the start of a run are all the later runs.)
C1_LedgerIdempotence ==
    \A m \in LaterModes, t \in LaterTimes :
        (pc \in {"start", "marked"} /\ t >= now) =>
            LET p == pending_episodes(WithMode(podcast, m), ledger, t) IN
            /\ \A i \in 1..Len(p.queue) : p.queue[i].guid \notin marked
            /\ (\A j \in 1..Len(podcast.feed) : podcast.feed[j].guid \in marked)
                   => p.st = "ok"

\* a second run finds a ledger with two lines for one id and queues nothing
C1_Witness ==
    /\ runs = 2
    /\ pc = "loop"
    /\ marked # {}
    /\ queue = <<>>
    /\ Len(lines(ledger.text)) > Cardinality(load(ledger).ids)
    /\ \A j \in 1..Len(podcast.feed) : podcast.feed[j].guid \in marked

IsPrefix(a, b) == Len(a) <= Len(b) /\ SubSeq(b, 1, Len(a)) = a
Events(lg) == {lg[i] : i \in DOMAIN lg}
EpisodeAt(index) == episodes(podcast)[index + 1]

\* C2: when download_episode finds a staging file of L > 0 bytes and the
\* remote object has N > L bytes, the request asks for the bytes from L on,
\* the bytes received are written after the L bytes found, and the file the
\* download leaves has N bytes.
C2_ResumeCorrectness ==
    (/\ pc = "downloaded"
     /\ Len(start_content) > 0
     /\ Len(start_content) < Len(unwrap(episode).obj)) =>
        LET e == unwrap(episode)
            L == Len(start_content)
            N == Len(e.obj)
            f == files[unwrap(path)]
        IN /\ Event("request", e.index, L) \in Events(log)
           /\ Len(f) = N
           /\ SubSeq(f, 1, L) = start_content
           /\ SubSeq(f, L + 1, N) = SubSeq(e.obj, L + 1, N)

\* the second run has resumed a staging file shorter than the object
C2_Witness ==
    /\ runs = 2
    /\ pc = "downloaded"
    /\ Len(start_content) > 0
    /\ Len(start_content) < Len(unwrap(episode).obj)

\* C3: a staging file is at all times a prefix of the remote object of its
\* episode, and a download that resumed a staging file left by an
\* interrupted run ends with a file equal to the remote object.
C3_InterruptionResumable ==
    /\ \A p \in DOMAIN files :
         p.ext = PARTIAL =>
            \E j \in 1..Len(podcast.feed) :
               /\ podcast.feed[j].guid = p.stem
               /\ IsPrefix(files[p], podcast.feed[j].obj)
    /\ (pc = "downloaded" /\ runs > 1 /\ Event("open", unwrap(episode).index, Len(start_content)) \in Events(log))
          => files[unwrap(path)] = unwrap(episode).obj

HasUnknownToken(config) ==
    \E pat \in {config.download_path, config.name_pattern, config.id_pattern} :
        \E i \in 1..Len(pat) : pat[i] = "nosuchtoken"

MutationOps == {"create_dir", "create", "write", "rename", "rename_file", "append"}

\* C4: when an unknown token of one of the three patterns ends the run, the
\* run has created no directory, created or written no staging file, renamed
\* no file and appended no ledger line.
C4_UnknownTokenBeforeMutation ==
    (pc = "exited" /\ HasUnknownToken(podcast.config)) =>
        \A i \in DOMAIN log : log[i].op \notin MutationOps

\* the episodes of the entries of the log in order, neighbours of the same
\* episode taken once
RECURSIVE EpisodesOf(_)
EpisodesOf(lg) ==
    IF lg = <<>> THEN <<>>
    ELSE LET rest == EpisodesOf(SubSeq(lg, 1, Len(lg) - 1))
             ep == lg[Len(lg)].ep
         IN IF ep = -1 \/ (rest # <<>> /\ rest[Len(rest)] = ep) THEN rest
            ELSE Append(rest, ep)

\* the episodes of the entries of one operation, in order
RECURSIVE OpsOf(_, _)
OpsOf(lg, op) ==
    IF lg = <<>> THEN <<>>
    ELSE LET rest == OpsOf(SubSeq(lg, 1, Len(lg) - 1), op) IN
         IF lg[Len(lg)].op = op THEN Append(rest, lg[Len(lg)].ep) ELSE rest

StrictlyDescending(q) == \A i \in 1..(Len(q) - 1) : q[i] > q[i + 1]

\* C7: a sync in Standard mode that returns has downloaded exactly the
\* episodes of its queue, one after the other in the order of the queue,
\* which is descending by index, and has appended one ledger line per
\* episode; with max_episodes = 2 and a feed of eight un-ledgered episodes
\* it downloads index 7, then index 6, and leaves two ledger lines.
C7_EndToEndStandard ==
    (pc = "returned" /\ podcast.config.mode.kind = "Standard") =>
        /\ EpisodesOf(log) = run_start.queue
        /\ OpsOf(log, "request") = run_start.queue
        /\ OpsOf(log, "append") = run_start.queue
        /\ StrictlyDescending(run_start.queue)
        /\ Len(lines(ledger.text))
              = Len(lines(run_start.ledger.text)) + Len(run_start.queue)
        /\ (/\ podcast.feed = FeedEight
            /\ podcast.config.mode.max_episodes = Some(2)
            /\ ~run_start.ledger.exists)
              => /\ OpsOf(log, "rename") = <<7, 6>>
                 /\ Len(lines(ledger.text)) = 2

C7_Witness ==
    /\ pc = "returned"
    /\ podcast.feed = FeedEight
    /\ podcast.config.mode = Standard(None, Some(2), None)
    /\ EpisodesOf(log) = <<7, 6>>
    /\ Len(lines(ledger.text)) = 2

\* the place of the first entry of operation op for episode ep, or 0
RECURSIVE PlaceFrom(_, _, _)
PlaceFrom(lg, ev, i) ==
    IF i > Len(lg) THEN 0 ELSE IF lg[i] = ev THEN i ELSE PlaceFrom(lg, ev, i + 1)

Place(lg, op, ep) == PlaceFrom(lg, Event(op, ep, 0), 1)

\* C8: every path sync has collected, and so every path it returns, names a
\* file that is there, that does not carry the in-progress marker, whose
\* staging file is gone (the rename of download_episode) and whose name is
\* the evaluated filename pattern (the rename of rename_file); its episode
\* has gone through both renames and the ledger append.
C8_ReturnedPathsFinal ==
    \A i \in 1..Len(sync_downloaded) :
        LET p == sync_downloaded[i]
            e == EpisodeAt(run_start.queue[i])
        IN /\ p.ext # PARTIAL
           /\ p \in DOMAIN files
           /\ partial_path_of(e) \notin DOMAIN files
           /\ p.stem = evaluate_pattern(podcast, podcast.config.name_pattern,
                                        mp3_tags(e, p), Some(e)).s
           /\ 0 < Place(log, "rename", e.index)
           /\ Place(log, "rename", e.index) < Place(log, "rename_file", e.index)
           /\ Place(log, "rename_file", e.index) < Place(log, "append", e.index)

C8_Witness ==
    /\ pc = "returned"
    /\ Len(sync_downloaded) = 2
    /\ \A i \in 1..2 : sync_downloaded[i].stem # EpisodeAt(run_start.queue[i]).guid

FailureOps == {"request_failed", "chunk_failed"}

\* C10: a failed download ends the run: nothing follows it in the run, no
\* ledger line is written for the episode that failed nor for an episode
\* still in the queue, and the ledger holds the lines it held at the start
\* of the run followed by one line for each episode completed before.
C10_DownloadFailureStops ==
    \A i \in DOMAIN log :
        log[i].op \in FailureOps =>
            /\ i = Len(log)
            /\ pc = "panicked"
            /\ log[i].ep \notin Events(OpsOf(log, "append"))
            /\ \A k \in 1..Len(queue) :
                  \A j \in DOMAIN log : log[j].ep # queue[k].index
            /\ IsPrefix(run_start.ledger.text, ledger.text)
            /\ Len(lines(ledger.text))
                  = Len(lines(run_start.ledger.text)) + Len(OpsOf(log, "append"))
            /\ \A ep \in Events(OpsOf(log, "append")) :
                  get_id(podcast, EpisodeAt(ep)).s \in load(ledger).ids

\* the second of three queued episodes fails after the first was ledgered
C10_Witness ==
    /\ pc = "panicked"
    /\ log # <<>>
    /\ log[Len(log)].op \in FailureOps
    /\ OpsOf(log, "append") # <<>>
    /\ queue # <<>>

\* C5: in Backlog mode with start T0 and an interval of k days, at a time
\* now >= T0 an un-ledgered episode of index N is eligible exactly when
\* N * k whole days have passed since T0: not before, and at every time
\* from then on (k = 7, N = 3: not at T0 + 20 d, from T0 + 21 d on).
C5_BacklogPacing ==
    (/\ pc = "policy"
     /\ probe.mode.kind = "Backlog"
     /\ probe.result # "unset"
     /\ probe.now >= probe.mode.start) =>
        /\ probe.result \in {"yes", "no"}
        /\ (probe.result = "yes")
              <=> (probe.now - probe.mode.start
                      >= probe.index * probe.mode.interval * SECS_PER_DAY)

\* index 3 with an interval of 7 days on the first second of day 21
C5_Witness ==
    /\ pc = "policy"
    /\ probe.mode = Backlog(1000, 7)
    /\ probe.index = 3
    /\ probe.now = 1000 + 21 * SECS_PER_DAY
    /\ probe.result = "yes"

\* C6 as stated: in Standard mode with max_episodes set, an un-ledgered
\* episode passes the bound exactly when (latest_index - max_episodes) <=
\* episode.index, latest_index being the highest index of the feed.
C6_BoundFromHighestIndex ==
    (/\ pc = "policy"
     /\ probe.mode.kind = "Standard"
     /\ probe.result # "unset") =>
        ((probe.result = "yes")
            <=> ((probe.count - 1) - unwrap(probe.mode.max_episodes) <= probe.index))

\* C6 as amended: the episode passes the bound exactly when max_episodes is
\* at most the number of episodes of the feed (the highest index + 1) and
\* (number of episodes - max_episodes) <= episode.index; with max_episodes =
\* 5 and highest index 20, index 15 is excluded and index 16 is included.
C6_BoundFromEpisodeCount ==
    (/\ pc = "policy"
     /\ probe.mode.kind = "Standard"
     /\ probe.result # "unset") =>
        ((probe.result = "yes")
            <=> (/\ unwrap(probe.mode.max_episodes) <= probe.count
                 /\ probe.count - unwrap(probe.mode.max_episodes) <= probe.index))

\* max_episodes = 5, highest index 20: index 16 passes
C6_Witness ==
    /\ pc = "policy"
    /\ probe.mode = Standard(None, Some(5), None)
    /\ probe.count = 21
    /\ probe.index = 16
    /\ probe.result = "yes"

\* what load_all hands to its caller: nothing when it panicked
Returned == IF loader.pc = "returned" THEN loader.podcasts ELSE <<>>

\* C9: when load_all has ended, every configured subscription that matches
\* the filter and whose feed was fetched and parsed is among the podcasts it
\* returned, whatever became of the feeds of the others.
C9_FeedFailureIsolation ==
    (pc = "load_all" /\ loader.pc \in {"returned", "panicked"}) =>
        \A name \in SubNames :
            (loader.configs[name].matches /\ loader.configs[name].feed = "ok")
               => \E i \in 1..Len(Returned) : Returned[i] = name

\* C11: sync returns its paths only after every hook task it spawned in the
\* run has finished: in no state has sync returned while a task of its
\* hook_handles is still running, and every hook spawned in the run is
\* among the handles.
C11_HooksAwaited ==
    pc = "returned" =>
        /\ \A i \in 1..Len(hook_handles) : hook_handles[i].state \in HookOutcomes
        /\ Len(hook_handles) = Len(OpsOf(log, "spawn"))
        /\ podcast.config.download_hook => Len(hook_handles) = Len(sync_downloaded)

\* sync has returned two paths after the two hooks it spawned ended
C11_Witness ==
    /\ pc = "returned"
    /\ Len(hook_handles) = 2
    /\ Len(sync_downloaded) = 2

HookFailures == {"not_started", "failed"}

\* a hook task of the run ends in a failure in this step
HookFails ==
    \E i \in 1..Len(hook_handles) :
        /\ hook_handles[i].state = "running"
        /\ Len(hook_handles') = Len(hook_handles)
        /\ hook_handles'[i].state \in HookFailures

\* C12: a hook that cannot be started or that exits with a failure changes
\* nothing of the sync but the state of its task: the sync goes on where it
\* was; and a sync that returns after a hook failed has downloaded and
\* ledgered every episode of its queue and returns the path the failed hook
\* was given.
C12_HookFailureNotPropagated ==
    /\ [][HookFails =>
            /\ pc' = pc
            /\ queue' = queue
            /\ episode' = episode
            /\ sync_downloaded' = sync_downloaded
            /\ files' = files
            /\ ledger' = ledger]_vars
    /\ [](pc = "returned" =>
            \A i \in 1..Len(hook_handles) :
                hook_handles[i].state \in HookFailures =>
                    /\ \E k \in 1..Len(sync_downloaded) :
                          sync_downloaded[k] = hook_handles[i].path
                    /\ OpsOf(log, "rename") = run_start.queue
                    /\ OpsOf(log, "append") = run_start.queue
                    /\ Len(sync_downloaded) = Len(run_start.queue)
                    /\ \A k \in 1..Len(run_start.queue) :
                          get_id(podcast, EpisodeAt(run_start.queue[k])).s
                              \in load(ledger).ids)

\* the hook of the first of two episodes could not be started; the second
\* episode was downloaded and ledgered and sync returned both paths
C12_Witness ==
    /\ pc = "returned"
    /\ Len(hook_handles) = 2
    /\ hook_handles[1].state = "not_started"
    /\ Len(sync_downloaded) = 2
    /\ sync_downloaded[1] = hook_handles[1].path
    /\ OpsOf(log, "append") = run_start.queue

\* the items of a feed that episodes() builds an episode from
Built(feed) == {k \in 1..Len(feed) : feed[k].has_guid /\ feed[k].complete}

\* C13: in the list episodes() returns, with N the number of episodes
\* built (one per item that has a guid and that Episode::new accepts), the
\* index of the i-th episode is i - 1, so the indices are exactly 0..N-1
\* with no gap and no repeat, and of two episodes the one with the smaller
\* index is never published later, whatever the order of the items.
C13_IndicesDenseChronological ==
    (pc = "episodes" /\ probe.done) =>
        LET v == probe.result
            N == Cardinality(Built(probe.feed))
        IN /\ Len(v) = N
           /\ {v[i].guid : i \in 1..N} = {probe.feed[k].guid : k \in Built(probe.feed)}
           /\ {v[i].index : i \in 1..N} = 0..(N - 1)
           /\ \A i, j \in 1..N : i # j => v[i].index # v[j].index
           /\ \A i, j \in 1..N :
                 v[i].index < v[j].index => v[i].published <= v[j].published

\* a feed that lists its newest item first and holds an item without a
\* guid: the two episodes built are indexed oldest first
C13_Witness ==
    /\ pc = "episodes"
    /\ probe.done
    /\ Len(probe.feed) = 3
    /\ Len(probe.result) = 2
    /\ ~probe.feed[2].has_guid
    /\ probe.feed[1].published > probe.feed[3].published
    /\ probe.result[1].guid = probe.feed[3].guid
    /\ probe.result[2].index = 1

\* the keys the match of evaluate_pattern has an arm for
RecognizedKeys ==
    PubdateKeys \cup Id3Keys \cup EpisodeKeys \cup ChannelKeys
        \cup {"guid", "url", "podname", "appname", "home"}

\* every token of the three patterns of the config is a recognized one
OnlyRecognizedTokens(config) ==
    \A pat \in {config.download_path, config.name_pattern, config.id_pattern} :
        \A i \in 1..Len(pat) :
            (i > 1 /\ i < Len(pat) /\ pat[i - 1] = "{" /\ pat[i + 1] = "}")
                => pat[i] \in RecognizedKeys

\* C14: a recognized token evaluated without the context it needs (guid in
\* the download-directory pattern, id3:: for a file that is not an mp3)
\* resolves to the placeholder "<value not found>": with patterns made of
\* recognized tokens only, no evaluation ends the process, and the name of a
\* file without tags holds the placeholder where the id3:: token stood.
C14_AbsentContextPlaceholder ==
    OnlyRecognizedTokens(podcast.config) =>
        /\ pc # "exited"
        /\ (/\ pc = "normalized"
            /\ unwrap(path).ext # "mp3"
            /\ podcast.config.name_pattern
                  = Tok("id3::title") \o <<"-">> \o Tok("pubdate::unix"))
              => unwrap(path).stem
                    = null \o <<"-">> \o to_string(unwrap(episode).published)

C16_BacklogFloorDivision ==
    (/\ pc = "policy"
     /\ probe.mode.kind = "Backlog"
     /\ probe.result # "unset") =>
        LET days_passed == (probe.now - probe.mode.start) \div SECS_PER_DAY
            unlocked_index == days_passed \div probe.mode.interval
        IN /\ (probe.result = "yes") <=> (unlocked_index >= probe.index)
           /\ probe.now < probe.mode.start => probe.result = "no"

\* the writes that left a well-formed line: a whole line that starts at the
\* start of a line of the file
WellFormed(writes) ==
    {i \in 1..Len(writes) :
        /\ writes[i].shape = "whole"
        /\ (i = 1 \/ writes[i - 1].shape = "whole")}

\* C17: for any content of the ledger file, lines cut short by an
\* interrupted write and lines a later append was concatenated onto
\* included, load completes and reports the id of every well-formed line as
\* present.
C17_LoadToleratesMalformed ==
    (pc = "load" /\ probe.done) =>
        /\ probe.result.st = "ok"
        /\ \A i \in WellFormed(probe.writes) :
              <<probe.writes[i].id>> \in probe.result.ids

\* the final name of episode e with extension ext: the evaluated filename
\* pattern
FinalPath(e, ext) ==
    PathOf(evaluate_pattern(podcast, podcast.config.name_pattern,
                            mp3_tags(e, PathOf(e.guid, ext)), Some(e)).s, ext)

\* C18: within a run, the ledger line of an episode is appended only after
\* both renames of its file, so every episode ledgered in the run has its
\* file under its final name and no staging file; the hook of an episode is
\* spawned only after its ledger append and is given that final path.  (A
\* later download starts while an earlier hook still runs: the witness.)
C18_PostProcessingOrder ==
    LET eps == episodes(podcast)
        ids == load(ledger).ids
    IN /\ \A i \in DOMAIN log :
             log[i].op = "append" =>
                LET e == eps[log[i].ep + 1] IN
                /\ 0 < Place(log, "rename", e.index)
                /\ Place(log, "rename", e.index) < Place(log, "rename_file", e.index)
                /\ Place(log, "rename_file", e.index) < i
                /\ partial_path_of(e) \notin DOMAIN files
                /\ \E p \in DOMAIN files : p = FinalPath(e, p.ext)
                /\ get_id(podcast, e).s \in ids
       /\ \A i \in 1..Len(hook_handles) :
             LET h == hook_handles[i]
                 e == eps[h.ep + 1]
             IN /\ 0 < Place(log, "append", h.ep)
                /\ Place(log, "append", h.ep) < Place(log, "spawn", h.ep)
                /\ h.path = FinalPath(e, h.path.ext)
                /\ h.path \in DOMAIN files
                /\ h.path = sync_downloaded[i]

\* the second episode is being streamed while the hook of the first, which
\* was ledgered before the hook was spawned, is still running
C18_Witness ==
    /\ pc = "streaming"
    /\ Len(hook_handles) = 1
    /\ hook_handles[1].state = "running"
    /\ unwrap(episode).index # hook_handles[1].ep
    /\ Place(log, "append", hook_handles[1].ep) < Place(log, "spawn", hook_handles[1].ep)
    /\ Event("write", unwrap(episode).index, 1) \in Events(log)

StrictlyAscending(q) == \A i \in 1..(Len(q) - 1) : q[i] < q[i + 1]

\* the indices of the episodes of the feed that should_download accepts,
\* given the ledger and the clock the run started with
EligibleIndices ==
    {e.index : e \in {x \in Events(episodes(podcast)) :
        should_download(podcast, x, Len(episodes(podcast)),
                        load(run_start.ledger).ids, now) = "yes"}}

\* C19: the queue pending_episodes returns holds exactly the eligible
\* un-ledgered episodes, each once, in strictly ascending index order in
\* Backlog mode and in strictly descending index order in Standard mode; and
\* sync has one download at a time: the operations of two episodes are never
\* interleaved, and an episode is started only after the one before it was
\* ledgered.
C19_QueueOrderByMode ==
    /\ (pc = "loop" /\ sync_downloaded = <<>> /\ episode = None) =>
          /\ Events(run_start.queue) = EligibleIndices
          /\ Indices(queue) = run_start.queue
          /\ IF podcast.config.mode.kind = "Backlog"
             THEN StrictlyAscending(run_start.queue)
             ELSE StrictlyDescending(run_start.queue)
    /\ LET eps == EpisodesOf(log) IN
          /\ IsPrefix(eps, run_start.queue)
          /\ \A k \in 1..(Len(eps) - 1) : 0 < Place(log, "append", eps[k])
          /\ is_some(episode) => eps = <<>> \/ eps[Len(eps)] = unwrap(episode).index

\* a Backlog run that queued index 0, then index 1, and downloaded them in
\* that order, one after the other
C19_Witness ==
    /\ pc = "returned"
    /\ podcast.config.mode.kind = "Backlog"
    /\ run_start.queue = <<0, 1>>
    /\ OpsOf(log, "request") = <<0, 1>>
    /\ Place(log, "append", 0) < Place(log, "create", 1)

\* C20: a media response that declares no content length ends the download
\* of the episode in a failure: once the declared length is known to be
\* missing (total_size is 0 for a body that is not empty), the staging file
\* is not renamed and no ledger line is appended for the episode (so its
\* path is never collected).
C20_MissingLengthIsFailure ==
    (/\ is_some(episode)
     /\ pc \in {"downloaded", "normalized", "marked"}
     /\ total_size = 0
     /\ Event("write", unwrap(episode).index, 1) \in Events(log)) =>
        /\ Place(log, "rename", unwrap(episode).index) = 0
        /\ Place(log, "append", unwrap(episode).index) = 0

\* the indices of the episodes of the probe that are not in its ledger and
\* that pass the max_days and earliest_date bounds
PassOtherBounds(q) ==
    LET ids == load(q.ledger).ids
        mode == q.podcast.config.mode
    IN {e.index : e \in {x \in Events(episodes(q.podcast)) :
            /\ get_id(q.podcast, x).s \notin ids
            /\ ~max_days_exceeded(mode, x, q.now)
            /\ ~episode_too_old(mode, x)}}

\* C21: in Standard mode with max_episodes larger than the number of
\* episodes of the feed, the max_episodes bound excludes no episode and its
\* subtraction neither fails nor wraps: pending_episodes completes and
\* queues every un-ledgered episode that passes the max_days and
\* earliest_date bounds.
C21_LargeBoundExcludesNothing ==
    (/\ pc = "queue"
     /\ probe.done
     /\ probe.podcast.config.mode.kind = "Standard"
     /\ is_some(probe.podcast.config.mode.max_episodes)
     /\ unwrap(probe.podcast.config.mode.max_episodes) > Len(episodes(probe.podcast))) =>
        /\ probe.result.st = "ok"
        /\ Events(Indices(probe.result.queue)) = PassOtherBounds(probe)
====
